---- MODULE Spec2Model ----
(***************************************************************************)
(* GaussianDistribution of mlpack's mixed logit discrete choice model      *)
(* (gaussian_distribution.h): a parameter vector holding a mean followed   *)
(* by the row-major upper entries of a Cholesky factor, the factor built   *)
(* from it, draws beta = factor * z + mean, the cached solution of         *)
(* factor * x = beta - mean, and the sparse gradient accessor.             *)
(*                                                                         *)
(* Vectors and matrices are functions over 0..n-1, as the code indexes     *)
(* them.  Parameters, factor entries, draws and z are integers; the        *)
(* cached solution and the gradient values are exact rationals <<n, d>>    *)
(* in lowest terms with d > 0 (floating-point rounding is not modelled).   *)
(***************************************************************************)
EXTENDS Integers, FiniteSets, Sequences, TLC

\* Largest attribute dimension K handed to Init.
MaxK == 2
\* Factor entries of the parameter vectors are multiples by base in 0..MaxBase.
MaxBase == 1
\* The random source returns z = zb, zb + 1, ... for zb in 0..MaxZ.
MaxZ == 1

VARIABLES
  cholesky_factor_dimension_,     \* PrivateData, line 25
  num_cholesky_factor_entries_,   \* PrivateData, line 27
  nonzero_column_indices_,        \* PrivateData, line 29
  start_indices_,                 \* PrivateData, line 31
  cached_solution_,               \* PrivateData, line 37
  cholesky_factor_,               \* PrivateData, line 39
  num_parameters,                 \* *num_parameters_out of Init
  beta,                           \* the caller's draw, *beta_out of DrawBeta
  last                            \* the last call: its operation, indices and outcome

vars ==
  << cholesky_factor_dimension_, num_cholesky_factor_entries_,
     nonzero_column_indices_, start_indices_, cached_solution_,
     cholesky_factor_, num_parameters, beta, last >>

\* The fields of PrivateData.
context ==
  << cholesky_factor_dimension_, num_cholesky_factor_entries_,
     nonzero_column_indices_, start_indices_, cached_solution_,
     cholesky_factor_ >>

\* The layout part of PrivateData, written by Init alone.
layout ==
  << cholesky_factor_dimension_, num_cholesky_factor_entries_,
     nonzero_column_indices_, start_indices_ >>

(***************************************************************************)
(* Vectors, matrices and exact arithmetic                                  *)
(***************************************************************************)
EmptyVec == [i \in {} |-> 0]

Size(v) == Cardinality(DOMAIN v)

\* arma::mat of n_rows x n_cols, all zero (Mat::zeros).
Zeros(r, c) ==
  [n_rows |-> r, n_cols |-> c,
   at |-> [i \in 0..(r - 1) |-> [j \in 0..(c - 1) |-> 0]]]

\* A default-constructed arma::mat: 0 x 0.
EmptyMat == Zeros(0, 0)

Abs(a) == IF a < 0 THEN -a ELSE a

RECURSIVE GCD(_, _)
GCD(a, b) == IF b = 0 THEN a ELSE GCD(b, a % b)

\* The rational n / d (d # 0) in lowest terms with a positive denominator.
Rat(n, d) ==
  LET g == GCD(Abs(n), Abs(d))
      s == IF d < 0 THEN -1 ELSE 1
  IN  << (s * n) \div g, (s * d) \div g >>

R(n) == << n, 1 >>
RSub(a, b) == Rat(a[1] * b[2] - b[1] * a[2], a[2] * b[2])
RMul(a, b) == Rat(a[1] * b[1], a[2] * b[2])
RDiv(a, b) == Rat(a[1] * b[2], a[2] * b[1])

\* Sum of f[j] for j in lo..hi, integers.
RECURSIVE SumInt(_, _, _)
SumInt(f, lo, hi) == IF lo > hi THEN 0 ELSE f[lo] + SumInt(f, lo + 1, hi)

(***************************************************************************)
(* Init (lines 165-204)                                                    *)
(***************************************************************************)
\* *num_parameters_out, line 171 (C++ int division, operands non-negative).
NumParameters(num_attributes_in) ==
  (num_attributes_in * (num_attributes_in + 3)) \div 2

\* The factor entries counted without the diagonal.
NumCholeskyFactorEntriesStrict(dim) == (dim * (dim - 1)) \div 2

\* num_cholesky_factor_entries_, lines 173-175.
NumCholeskyFactorEntries(dim) == (dim * (dim + 1)) \div 2

\* The row walk shared by the loops of Init and SetupCholeskyFactor_
\* (lines 65-70 and 192-197): the loop variables after the "if(i == limit)".
Advance(i, w) ==
  IF i = w.limit
    THEN [limit |-> w.limit + w.add, add |-> w.add - 1,
          row_num |-> w.row_num + 1, start |-> i]
    ELSE w

\* The loop variables before the first iteration (lines 60-63, 187-190).
WalkStart(dim) ==
  [limit |-> dim, add |-> dim - 1, row_num |-> 0, start |-> 0]

\* InitLoop with the row start recorded without the offset of the mean.
RECURSIVE InitLoopStartInFactor(_, _, _, _, _)
InitLoopStartInFactor(i, w, t, dim, entries) ==
  IF i >= entries THEN t
  ELSE LET w2 == Advance(i, w)
       IN  InitLoopStartInFactor(i + 1, w2,
             [nonzero |-> [t.nonzero EXCEPT ![dim + i] = w2.row_num],
              start   |-> [t.start EXCEPT ![dim + i] = w2.start]],
             dim, entries)

\* The loop of Init, lines 191-203, from iteration i on; t holds both tables.
RECURSIVE InitLoop(_, _, _, _, _)
InitLoop(i, w, t, dim, entries) ==
  IF i >= entries THEN t
  ELSE LET w2 == Advance(i, w)
       IN  InitLoop(i + 1, w2,
             [nonzero |-> [t.nonzero EXCEPT ![dim + i] = w2.row_num],
              start   |-> [t.start EXCEPT ![dim + i] = dim + w2.start]],
             dim, entries)

\* Both tables as Init leaves them: resized, filled with 0, then the loop.
InitTables(dim) ==
  LET n == NumParameters(dim)
      zero == [p \in 0..(n - 1) |-> 0]
  IN  InitLoop(0, WalkStart(dim), [nonzero |-> zero, start |-> zero],
               dim, NumCholeskyFactorEntries(dim))

(***************************************************************************)
(* SetupDistribution / SetupCholeskyFactor_ (lines 54-85)                  *)
(***************************************************************************)
\* SetupLoop with the column taken as the offset within the row alone.
RECURSIVE SetupLoopOffsetColumn(_, _, _, _, _, _)
SetupLoopOffsetColumn(i, w, m, params, dim, entries) ==
  IF i >= entries THEN m
  ELSE LET w2 == Advance(i, w)
           r == w2.row_num
           c == i - w2.start
       IN  SetupLoopOffsetColumn(i + 1, w2,
             [m EXCEPT !.at[r][c] = params[dim + i]],
             params, dim, entries)

\* The loop of lines 64-73 from iteration i on; m is the factor so far.
RECURSIVE SetupLoop(_, _, _, _, _, _)
SetupLoop(i, w, m, params, dim, entries) ==
  IF i >= entries THEN m
  ELSE LET w2 == Advance(i, w)
           r == w2.row_num
           c == w2.row_num + i - w2.start
       IN  SetupLoop(i + 1, w2,
             [m EXCEPT !.at[r][c] = params[dim + i]],
             params, dim, entries)

\* The factor SetupCholeskyFactor_ leaves: zeros(dim, dim), then the loop.
SetupCholeskyFactor_(params, dim, entries) ==
  SetupLoop(0, WalkStart(dim), Zeros(dim, dim), params, dim, entries)

(***************************************************************************)
(* DrawBeta (lines 147-163)                                                *)
(***************************************************************************)
\* The vector aliasing the first n entries of the parameter vector
\* (lines 97-99 and 158-160).
MeanView(params, n) == [i \in 0..(n - 1) |-> params[i]]

\* The product taken with the transposed factor.
TransposedFactorTimesPlusMean(m, v, mean) ==
  [r \in 0..(m.n_rows - 1) |->
     SumInt([c \in 0..(m.n_cols - 1) |-> m.at[c][r] * v[c]], 0, m.n_cols - 1)
       + mean[r]]

\* cholesky_factor_ * random_gaussian_vector + mean, lines 161-162: the full
\* matrix-vector product, every column of every row.
FactorTimesPlusMean(m, v, mean) ==
  [r \in 0..(m.n_rows - 1) |->
     SumInt([c \in 0..(m.n_cols - 1) |-> m.at[r][c] * v[c]], 0, m.n_cols - 1)
       + mean[r]]

(***************************************************************************)
(* SamplingAccumulatePrecompute (lines 91-104)                             *)
(***************************************************************************)
\* arma::solve finds no solution: the factor, which SetupCholeskyFactor_
\* leaves upper triangular, has a zero on its diagonal.
IsSingular(m) == \E i \in 0..(m.n_rows - 1) : m.at[i][i] = 0

\* The solution x of m * x = rhs for a non-singular upper-triangular m,
\* from row i upwards (back substitution), x holding the rows below i.
RECURSIVE BackSubstitute(_, _, _, _)
BackSubstitute(m, rhs, i, x) ==
  IF i < 0 THEN x
  ELSE LET n == m.n_cols
           known == [j \in (i + 1)..(n - 1) |-> RMul(R(m.at[i][j]), x[j])]
           RECURSIVE Minus(_, _)
           Minus(acc, j) ==
             IF j > n - 1 THEN acc ELSE Minus(RSub(acc, known[j]), j + 1)
           xi == RDiv(Minus(R(rhs[i]), i + 1), R(m.at[i][i]))
       IN  BackSubstitute(m, rhs, i - 1, [x EXCEPT ![i] = xi])

\* arma::solve(cholesky_factor_, right_hand_side), lines 101-103, as
\* [status, x]. Armadillo checks the sizes first and throws; when it finds
\* no solution it resets the output and throws; otherwise the output is
\* the solution.
Solve(m, rhs, old) ==
  IF m.n_rows # Size(rhs)
    THEN [status |-> "size_error", x |-> old]
  ELSE IF IsSingular(m)
    THEN [status |-> "no_solution", x |-> EmptyVec]
  ELSE [status |-> "ok",
        x |-> BackSubstitute(m, rhs, m.n_rows - 1,
                             [i \in 0..(m.n_rows - 1) |-> R(0)])]

\* beta_vector - mean_vector, line 100.
RightHandSide(beta_vector, params) ==
  LET mean_vector == MeanView(params, Size(beta_vector))
  IN  [i \in DOMAIN beta_vector |-> beta_vector[i] - mean_vector[i]]

(***************************************************************************)
(* AttributeGradientWithRespectToParameter (lines 109-143)                 *)
(***************************************************************************)
NoValue == << 0, 0 >>

Returns(v) == [status |-> "ok", ret |-> v]

\* What an unchecked read outside a vector can give: some value, or a crash.
OutOfBoundsRead ==
  { Returns(R(0)), Returns(R(-1)), [status |-> "crash", ret |-> NoValue] }

\* The accessor with the cached entry looked up at the offset within the
\* row, the nonzero column index not added.
AttributeGradientAtRowOffset(nonzero, start, cached, beta_vector, row_index, col_index) ==
  LET num_attributes == Size(beta_vector)
  IN  IF row_index < num_attributes
        THEN IF row_index = col_index
               THEN { Returns(R(1)) }
               ELSE { Returns(R(0)) }
      ELSE IF row_index \notin DOMAIN nonzero
        THEN OutOfBoundsRead
      ELSE LET nonzero_column_index == nonzero[row_index]
               at == row_index - start[row_index]
           IN  IF nonzero_column_index = col_index
                 THEN IF at \in DOMAIN cached
                        THEN { Returns(cached[at]) }
                        ELSE OutOfBoundsRead
                 ELSE { Returns(R(0)) }

\* The accessor with the mean block one row longer or shorter (by delta).
AttributeGradientMeanBlock(delta, nonzero, start, cached, beta_vector, row_index, col_index) ==
  LET num_attributes == Size(beta_vector)
  IN  IF row_index < num_attributes + delta
        THEN IF row_index = col_index
               THEN { Returns(R(1)) }
               ELSE { Returns(R(0)) }
      ELSE IF row_index \notin DOMAIN nonzero
        THEN OutOfBoundsRead
      ELSE LET nonzero_column_index == nonzero[row_index]
               at == row_index - start[row_index] + nonzero_column_index
           IN  IF nonzero_column_index = col_index
                 THEN IF at \in DOMAIN cached
                        THEN { Returns(cached[at]) }
                        ELSE OutOfBoundsRead
                 ELSE { Returns(R(0)) }

\* The accessor with "row_index <= num_attributes".
AttributeGradientLongMeanBlock(nonzero, start, cached, beta_vector, row_index, col_index) ==
  AttributeGradientMeanBlock(1, nonzero, start, cached,
                             beta_vector, row_index, col_index)

\* The accessor with "row_index < num_attributes - 1".
AttributeGradientShortMeanBlock(nonzero, start, cached, beta_vector, row_index, col_index) ==
  AttributeGradientMeanBlock(-1, nonzero, start, cached,
                             beta_vector, row_index, col_index)

\* The outcomes of one call, lines 114-142. std::vector::operator[] and
\* arma's operator[] check no bounds.
AttributeGradientWithRespectToParameter(nonzero, start, cached, beta_vector, row_index, col_index) ==
  LET num_attributes == Size(beta_vector)
  IN  IF row_index < num_attributes
        THEN IF row_index = col_index
               THEN { Returns(R(1)) }
               ELSE { Returns(R(0)) }
      ELSE IF row_index \notin DOMAIN nonzero
        THEN OutOfBoundsRead
      ELSE LET nonzero_column_index == nonzero[row_index]
               at == row_index - start[row_index] + nonzero_column_index
           IN  IF nonzero_column_index = col_index
                 THEN IF at \in DOMAIN cached
                        THEN { Returns(cached[at]) }
                        ELSE OutOfBoundsRead
                 ELSE { Returns(R(0)) }

(***************************************************************************)
(* Inputs                                                                  *)
(***************************************************************************)
\* A parameter vector of dimension dim: the mean 1, 2, ..., dim, then the
\* factor entries row-major, base times dim + 1, dim + 2, ...  Base 0 is
\* the all-zero, singular, factor; base 1 for dim = 2 is [1, 2, 3, 4, 5].
Params(dim, base) ==
  [p \in 0..(NumParameters(dim) - 1) |->
     IF p < dim THEN p + 1 ELSE base * (p + 1)]

\* The parameter vectors a caller passes.
ParameterVectors(dim) == { Params(dim, base) : base \in 0..MaxBase }

\* The vectors of n values RandGaussian can return.
GaussianVectors(n) == { [i \in 0..(n - 1) |-> zb + i] : zb \in 0..MaxZ }

\* The record of a call that is no gradient query.
Call(op, status, draws) ==
  [op |-> op, status |-> status, draws |-> draws,
   row |-> -1, col |-> -1, ret |-> NoValue]

(***************************************************************************)
(* The state machine                                                       *)
(***************************************************************************)
\* PrivateData() followed by Init(attribute dimension), lines 42-45, 165-204.
Init ==
  \E num_attributes_in \in 1..MaxK :
    LET t == InitTables(num_attributes_in)
    IN  /\ num_parameters = NumParameters(num_attributes_in)
        /\ cholesky_factor_dimension_ = num_attributes_in
        /\ num_cholesky_factor_entries_ =
             NumCholeskyFactorEntries(num_attributes_in)
        /\ nonzero_column_indices_ = t.nonzero
        /\ start_indices_ = t.start
        /\ cached_solution_ = EmptyVec
        /\ cholesky_factor_ = EmptyMat
        /\ beta = EmptyVec
        /\ last = Call("Init", "ok", 0)

\* SetupDistribution dropping the cached solution with the old factor.
SetupDistributionClearsCache(params) ==
  /\ cholesky_factor_' =
       SetupCholeskyFactor_(params, cholesky_factor_dimension_,
                            num_cholesky_factor_entries_)
  /\ cached_solution_' = EmptyVec
  /\ last' = Call("SetupDistribution", "ok", 0)
  /\ UNCHANGED << layout, num_parameters, beta >>

SetupDistribution(params) ==
  /\ cholesky_factor_' =
       SetupCholeskyFactor_(params, cholesky_factor_dimension_,
                            num_cholesky_factor_entries_)
  /\ last' = Call("SetupDistribution", "ok", 0)
  /\ UNCHANGED << layout, cached_solution_, num_parameters, beta >>

\* One RandGaussian call per column of the factor (lines 152-155).
DrawBeta(params, random_gaussian_vector) ==
  /\ beta' = FactorTimesPlusMean(cholesky_factor_, random_gaussian_vector,
                                 MeanView(params, cholesky_factor_.n_cols))
  /\ last' = Call("DrawBeta", "ok", Size(random_gaussian_vector))
  /\ UNCHANGED << context, num_parameters >>

SamplingAccumulatePrecompute(params) ==
  LET s == Solve(cholesky_factor_, RightHandSide(beta, params),
                 cached_solution_)
  IN  /\ cached_solution_' = s.x
      /\ last' = Call("SamplingAccumulatePrecompute", s.status, 0)
      /\ UNCHANGED << layout, cholesky_factor_, num_parameters, beta >>

AttributeGradient(row_index, col_index) ==
  \E out \in AttributeGradientWithRespectToParameter(
               nonzero_column_indices_, start_indices_, cached_solution_,
               beta, row_index, col_index) :
    /\ last' = [op |-> "AttributeGradient", status |-> out.status,
                draws |-> 0, row |-> row_index, col |-> col_index,
                ret |-> out.ret]
    /\ UNCHANGED << context, num_parameters, beta >>

Next ==
  \/ \E params \in ParameterVectors(cholesky_factor_dimension_) :
       SetupDistribution(params)
  \/ \E params \in ParameterVectors(cholesky_factor_dimension_) :
       \E v \in GaussianVectors(cholesky_factor_.n_cols) :
         DrawBeta(params, v)
  \/ \E params \in ParameterVectors(cholesky_factor_dimension_) :
       SamplingAccumulatePrecompute(params)
  \/ \E row_index \in 0..num_parameters :
       \E col_index \in 0..cholesky_factor_dimension_ :
         AttributeGradient(row_index, col_index)

Spec == Init /\ [][Next]_vars

(***************************************************************************)
(* The packing in closed form, for stating the properties                  *)
(***************************************************************************)
K == cholesky_factor_dimension_

\* The positions on or above the diagonal of a dim x dim matrix.
UpperPositions(dim) ==
  { rc \in (0..(dim - 1)) \X (0..(dim - 1)) : rc[1] <= rc[2] }

\* The parameter index of factor entry (r, c), r <= c: the mean takes dim
\* entries, rows 0..r-1 take dim, dim - 1, ..., dim - r + 1 entries.
ParameterOf(dim, r, c) == dim + r * dim - ((r * (r - 1)) \div 2) + (c - r)

\* The factor position <<r, c>> of parameter index q >= dim.
PositionOf(dim, q) ==
  CHOOSE rc \in UpperPositions(dim) : ParameterOf(dim, rc[1], rc[2]) = q

\* The parameter indices of the factor entries.
FactorRows == K..(num_parameters - 1)

\* What a gradient query at (row, col) can give in the current state.
Gradient(row, col) ==
  AttributeGradientWithRespectToParameter(
    nonzero_column_indices_, start_indices_, cached_solution_, beta, row, col)

\* The cached solution and the draw both hold K entries.
CacheHoldsK == Size(cached_solution_) = K /\ Size(beta) = K

\* v as a vector of rationals.
AsRationals(v) == [i \in DOMAIN v |-> R(v[i])]

\* beta[r] = mean[r] + sum over c >= r of factor[r][c] * v[c].
UpperProductPlusMean(m, v, params) ==
  [r \in 0..(K - 1) |->
     params[r] + SumInt([c \in r..(K - 1) |-> m.at[r][c] * v[c]], r, K - 1)]

(***************************************************************************)
(* C1                                                                      *)
(***************************************************************************)
\* C1: SetupDistribution on the parameter vector packing a mean and an
\* upper-triangular factor row-major leaves exactly that factor: K x K, each
\* entry on or above the diagonal the packed one, each entry below it zero,
\* whatever factor an earlier SetupDistribution left.
C1_RoundTrip ==
  [][ last'.op = "SetupDistribution" =>
      \A params \in ParameterVectors(K) :
        SetupDistribution(params) =>
          /\ cholesky_factor_'.n_rows = K
          /\ cholesky_factor_'.n_cols = K
          /\ \A r \in 0..(K - 1) : \A c \in 0..(K - 1) :
               cholesky_factor_'.at[r][c] =
                 IF r <= c THEN params[ParameterOf(K, r, c)] ELSE 0 ]_vars

\* K = 2, parameters [1, 2, 3, 4, 5]: the factor is [[3, 4], [0, 5]].
C1_Witness ==
  /\ last.op = "SetupDistribution"
  /\ K = 2
  /\ cholesky_factor_.at[0][0] = 3 /\ cholesky_factor_.at[0][1] = 4
  /\ cholesky_factor_.at[1][0] = 0 /\ cholesky_factor_.at[1][1] = 5

DrawnWith(params, v) ==
  /\ cholesky_factor_.n_rows = K
  /\ ~IsSingular(cholesky_factor_)
  /\ beta = UpperProductPlusMean(cholesky_factor_, v, params)

\* C3: when the factor has no zero diagonal entry and beta was drawn from it
\* with the random vector v, SamplingAccumulatePrecompute(parameters, beta)
\* caches exactly v, and then for every factor parameter p at factor
\* position (r, c) the gradient at (p, r) is v[c], looked up at index
\* p - start_index[p] + nonzero_column_index[p] = c, inside 0..K-1; a
\* gradient query made in such a state returns that value.
C3_GradientIsZ ==
  [][ /\ last'.op = "SamplingAccumulatePrecompute" =>
         \A params \in ParameterVectors(K) : \A v \in GaussianVectors(K) :
           (DrawnWith(params, v) /\ SamplingAccumulatePrecompute(params)) =>
             /\ last'.status = "ok"
             /\ cached_solution_' = AsRationals(v)
             /\ \A p \in FactorRows :
                  LET r == PositionOf(K, p)[1]
                      c == PositionOf(K, p)[2]
                  IN  /\ p - start_indices_'[p] + nonzero_column_indices_'[p] = c
                      /\ c \in 0..(K - 1)
                      /\ AttributeGradientWithRespectToParameter(
                           nonzero_column_indices_', start_indices_',
                           cached_solution_', beta', p, r)
                           = { Returns(R(v[c])) }
      /\ (last'.op = "AttributeGradient" /\ Size(beta) = K
            /\ last'.row \in FactorRows
            /\ last'.col = PositionOf(K, last'.row)[1]) =>
           \A v \in GaussianVectors(K) :
             cached_solution_ = AsRationals(v) =>
               /\ last'.status = "ok"
               /\ last'.ret = R(v[PositionOf(K, last'.row)[2]]) ]_vars

\* K = 2 after a draw with z = (1, 2) and its Precompute: the query for the
\* parameter of factor entry (0, 1) at column 0 returned z[1] = 2.
C3_Witness ==
  /\ K = 2
  /\ ~IsSingular(cholesky_factor_)
  /\ cached_solution_ = AsRationals([i \in 0..1 |-> i + 1])
  /\ \E params \in ParameterVectors(K) :
       beta = UpperProductPlusMean(cholesky_factor_, [i \in 0..1 |-> i + 1],
                                   params)
  /\ last.op = "AttributeGradient"
  /\ last.row = ParameterOf(2, 0, 1)
  /\ last.col = 0
  /\ last.ret = R(2)

(***************************************************************************)
(* C4                                                                      *)
(***************************************************************************)
\* C4 as stated, for a query made in call order (K entries drawn and
\* cached): with rowIndex outside 0..numParameters-1 or colIndex outside
\* 0..K-1 it ends with a contract violation and no value.
C4_RangeChecked ==
  (last.op = "AttributeGradient" /\ CacheHoldsK
     /\ (last.row \notin 0..(num_parameters - 1)
           \/ last.col \notin 0..(K - 1))) =>
    last.status = "contract_violation"

(***************************************************************************)
(* C5                                                                      *)
(***************************************************************************)
\* C5 as stated: a DrawBeta before any SetupDistribution, and a gradient
\* query before any SetupDistribution or before any stored cached solution,
\* ends with an error and no value.
C5_OrderEnforced ==
  /\ (last.op = "DrawBeta" /\ cholesky_factor_ = EmptyMat) =>
       last.status \notin {"ok"}
  /\ (last.op = "AttributeGradient"
        /\ (cholesky_factor_ = EmptyMat \/ cached_solution_ = EmptyVec)) =>
       last.status \notin {"ok"}

\* C5 as amended: the call order is not enforced.  A DrawBeta before any
\* SetupDistribution ends normally, takes no random value and returns the
\* empty vector; no SetupDistribution, DrawBeta or gradient query ever ends
\* with an error result; a gradient query in range, with a K-entry draw,
\* returns the identity value for a mean row and, for a factor row, 0.0 off
\* its column and otherwise the cached entry whenever K entries are cached,
\* whatever factor is current; only with no K-entry cached solution does it
\* read outside the cached vector.
C5_OrderNotEnforced ==
  /\ (last.op = "DrawBeta" /\ cholesky_factor_ = EmptyMat) =>
       /\ last.status = "ok"
       /\ last.draws = 0
       /\ beta = EmptyVec
  /\ last.op \in {"SetupDistribution", "DrawBeta"} => last.status = "ok"
  /\ last.op = "AttributeGradient" => last.status \in {"ok", "crash"}
  /\ (last.op = "AttributeGradient" /\ Size(beta) = K
        /\ last.row \in 0..(num_parameters - 1)
        /\ last.col \in 0..(K - 1)) =>
       IF last.row < K
         THEN last.status = "ok"
                /\ last.ret = (IF last.row = last.col THEN R(1) ELSE R(0))
       ELSE IF last.col # PositionOf(K, last.row)[1]
         THEN last.status = "ok" /\ last.ret = R(0)
       ELSE IF Size(cached_solution_) = K
         THEN last.status = "ok"
                /\ last.ret = cached_solution_[PositionOf(K, last.row)[2]]
       ELSE Gradient(last.row, last.col) = OutOfBoundsRead

\* A DrawBeta before any SetupDistribution returned the empty vector.
C5_Witness ==
  /\ last.op = "DrawBeta"
  /\ cholesky_factor_ = EmptyMat
  /\ last.status = "ok"
  /\ beta = EmptyVec

(***************************************************************************)
(* C6                                                                      *)
(***************************************************************************)
\* C6 as stated: with a zero on the diagonal of the factor,
\* SamplingAccumulatePrecompute and DrawBeta end with an error, return no
\* value and store no cached solution.
C6_SingularSurfaced ==
  (cholesky_factor_.n_rows = K /\ IsSingular(cholesky_factor_)
     /\ last.op \in {"SamplingAccumulatePrecompute", "DrawBeta"}) =>
    /\ last.status # "ok"
    /\ last.op = "SamplingAccumulatePrecompute" => cached_solution_ = EmptyVec

(***************************************************************************)
(* C7                                                                      *)
(***************************************************************************)
\* C7: a DrawBeta after SetupDistribution takes exactly K values z from the
\* random source and returns the K-entry vector with
\* beta[r] = mean[r] + sum over c >= r of factor[r][c] * z[c], the factor
\* being the one the last SetupDistribution built and the mean the first K
\* entries of the parameter vector passed to DrawBeta.
C7_DrawIsFactorTimesZPlusMean ==
  [][ (last'.op = "DrawBeta" /\ cholesky_factor_.n_rows = K) =>
      \A params \in ParameterVectors(K) :
        \A v \in GaussianVectors(cholesky_factor_.n_cols) :
          DrawBeta(params, v) =>
            /\ last'.status = "ok"
            /\ last'.draws = K
            /\ Size(v) = K
            /\ Size(beta') = K
            /\ beta' = UpperProductPlusMean(cholesky_factor_, v, params) ]_vars

\* K = 2, factor [[3, 4], [0, 5]], mean (1, 2), z = (1, 2): beta = (12, 12).
C7_Witness ==
  /\ last.op = "DrawBeta"
  /\ last.draws = 2
  /\ K = 2
  /\ cholesky_factor_.n_rows = 2
  /\ cholesky_factor_.at[0][0] = 3 /\ cholesky_factor_.at[0][1] = 4
  /\ cholesky_factor_.at[1][1] = 5
  /\ beta = [i \in 0..1 |-> 12]

(***************************************************************************)
(* C8                                                                      *)
(***************************************************************************)
\* C8: with a K-entry draw, for every row and col in 0..K-1 the gradient is
\* 1.0 when row = col and 0.0 otherwise, whatever the factor, the cached
\* solution and the layout tables hold; a query made there returned it.
C8_IdentityBlock ==
  Size(beta) = K =>
    /\ \A row \in 0..(K - 1) : \A col \in 0..(K - 1) :
         Gradient(row, col) = { Returns(IF row = col THEN R(1) ELSE R(0)) }
    /\ (last.op = "AttributeGradient" /\ last.row \in 0..(K - 1)
          /\ last.col \in 0..(K - 1)) =>
         /\ last.status = "ok"
         /\ last.ret = (IF last.row = last.col THEN R(1) ELSE R(0))

\* A query at (1, 1) for K = 2 returned 1.0 with nothing cached.
C8_Witness ==
  /\ K = 2
  /\ Size(beta) = 2
  /\ cached_solution_ = EmptyVec
  /\ last.op = "AttributeGradient"
  /\ last.row = 1 /\ last.col = 1
  /\ last.ret = R(1)

(***************************************************************************)
(* C9                                                                      *)
(***************************************************************************)
InRange(row, col) ==
  row \in 0..(num_parameters - 1) /\ col \in 0..(K - 1)

LayoutSizes ==
  /\ K >= 1
  /\ 2 * num_parameters = K * (K + 3)
  /\ num_cholesky_factor_entries_ = Cardinality(UpperPositions(K))
  /\ num_parameters = K + num_cholesky_factor_entries_
  /\ DOMAIN nonzero_column_indices_ = 0..(num_parameters - 1)
  /\ DOMAIN start_indices_ = 0..(num_parameters - 1)

\* C10: Init(K) returns numParameters = K*(K+3)/2, records K*(K+1)/2 factor
\* entries (one per position on or above the diagonal) and leaves both
\* layout tables with numParameters entries; no later SetupDistribution,
\* DrawBeta, SamplingAccumulatePrecompute or gradient query changes K,
\* these counts or the tables.
C10_LayoutFixed ==
  /\ LayoutSizes
  /\ [][ LayoutSizes' /\ layout' = layout
           /\ num_parameters' = num_parameters ]_vars

\* K = 2 with 5 parameters and 3 factor entries after a Precompute.
C10_Witness ==
  /\ K = 2
  /\ num_parameters = 5
  /\ num_cholesky_factor_entries_ = 3
  /\ last.op = "SamplingAccumulatePrecompute"
  /\ last.status = "ok"

====
